---- MODULE Spec2Model ----
(***************************************************************************)
(* State machine of timetrack's TimeTracker (src/timetrack/cli.py): the    *)
(* active timers, the session list and the JSON state file, under the      *)
(* tracker's operations.                                                   *)
(*                                                                         *)
(* Time is counted in seconds since Monday 2024-01-01 00:00 (local time).  *)
(* Every clock reading, backdating offset, session date and duration the   *)
(* model draws is a whole number of hours, so total_seconds / 3600 is      *)
(* exact and is written with \div.                                         *)
(***************************************************************************)
EXTENDS Integers, Sequences, FiniteSets, TLC

VARIABLES
    active_timers,   \* self.active_timers: dict in insertion order, a sequence of [key, data]
    sessions,        \* self.sessions: list of session dicts
    data_file,       \* ~/.timetrack_data.json: [exists, active_timers, sessions]
    now,             \* the wall clock, datetime.datetime.now()
    hist,            \* history: what each active timer has been through, by key
    last,            \* history: the last call, its arguments and its outcome
    pre,             \* history: the tracker's state before the last call
    race             \* two invocations of the CLI at once: their memories and the disk

vars == <<active_timers, sessions, data_file, now, hist, last, pre, race>>

-----------------------------------------------------------------------------
(* Bounds *)

MaxTicks == 2        \* Spec: the clock advances at most this many hours
MaxSessions == 1     \* Spec: a session is created only while fewer than this many exist
MaxStored == 2       \* SpecStore: the same, while the clock stands still
MaxCreated == 3      \* SpecCreate: the same, while nothing is removed
MaxReported == 3     \* SpecCli: the same, for the sessions the reports read
MaxBackdated == 2    \* SpecOffset: the same, for the timers started with an offset
MaxEvents == 6       \* SpecAgain: an invocation runs again while fewer steps were taken

-----------------------------------------------------------------------------
(* Units of datetime.timedelta *)

SecondsPerMinute == 60
SecondsPerHour == 3600
SecondsPerDay == 86400
DaysPerWeek == 7
WeeksPerYear == 52

SecondsPerWeek == DaysPerWeek * SecondsPerDay

-----------------------------------------------------------------------------
(* Timestamps: a value t together with the representation that holds it.   *)
(*   "iso"       the string of datetime.isoformat(), 2024-01-01T10:00:00    *)
(*   "datetime"  a datetime.datetime object                                 *)
(*   "str"       the string of str(datetime), 2024-01-01 10:00:00           *)
(*   "none"      None / JSON null                                           *)

None == [rep |-> "none", t |-> 0]

DateTime(t) == [rep |-> "datetime", t |-> t]

\* datetime.isoformat()
IsoFormat(dt) == [rep |-> "iso", t |-> dt.t]

\* str(x) of a datetime object or of a string
Str(x) == IF x.rep = "datetime" THEN [rep |-> "str", t |-> x.t] ELSE x

\* datetime.datetime.fromisoformat(s): s must be a string
FromIsoFormat(s) == DateTime(s.t)

IsString(x) == x.rep \in {"iso", "str"}

\* datetime.isocalendar()[1]; the epoch is the Monday of ISO week 1 of 2024
IsoWeek(dt) == ((dt.t \div SecondsPerWeek) % WeeksPerYear) + 1

\* datetime.date(), as the number of the day
DateOf(dt) == dt.t \div SecondsPerDay

\* str(datetime.timedelta(seconds=s)): "[D day[s], ]H:MM:SS"
TimedeltaStr(s) ==
    [days |-> s \div SecondsPerDay,
     hours |-> (s % SecondsPerDay) \div SecondsPerHour,
     minutes |-> (s % SecondsPerHour) \div SecondsPerMinute,
     seconds |-> s % SecondsPerMinute]

-----------------------------------------------------------------------------
(* The category taxonomy, self.categories *)

Categories == <<"Sales", "Other">>

Subcategories ==
    [c \in {"Sales", "Other"} |->
        IF c = "Sales" THEN <<"Direct sales", "CRM work">> ELSE <<"MetaLand">>]

Range(seq) == {seq[i] : i \in 1..Len(seq)}

get_subcategories(main_category) ==
    IF main_category \in DOMAIN Subcategories THEN Subcategories[main_category] ELSE <<>>

-----------------------------------------------------------------------------
(* active_timers as an insertion-ordered dict *)

TimerKey(main_category, subcategory) == <<main_category, " - ", subcategory>>

Keys(at) == [i \in 1..Len(at) |-> at[i].key]

HasKey(at, k) == \E i \in 1..Len(at) : at[i].key = k

IndexOf(at, k) == CHOOSE i \in 1..Len(at) : at[i].key = k

Get(at, k) == at[IndexOf(at, k)].data

\* at[k] = data
Put(at, k, data) ==
    IF HasKey(at, k)
      THEN [at EXCEPT ![IndexOf(at, k)] = [key |-> k, data |-> data]]
      ELSE Append(at, [key |-> k, data |-> data])

\* del at[k]
Del(at, k) == SelectSeq(at, LAMBDA e : e.key # k)


-----------------------------------------------------------------------------
(* Persistence *)

\* json.dump(..., default=str): a value JSON cannot hold is written as str(value)
JsonDefault(x) == IF x.rep = "datetime" THEN Str(x) ELSE x

DumpTimer(e) ==
    [e EXCEPT !.data.start_time = JsonDefault(@), !.data.pause_time = JsonDefault(@)]

DumpSession(s) ==
    [s EXCEPT !.start_time = JsonDefault(@), !.end_time = JsonDefault(@)]

\* variant: the sessions are written, the active timers are not
save_data_SessionsOnly(at, ss) ==
    [exists |-> TRUE,
     active_timers |-> <<>>,
     sessions |-> [i \in 1..Len(ss) |-> DumpSession(ss[i])]]

\* _save_data: the whole file is replaced by the in-memory state
save_data(at, ss) ==
    [exists |-> TRUE,
     active_timers |-> [i \in 1..Len(at) |-> DumpTimer(at[i])],
     sessions |-> [i \in 1..Len(ss) |-> DumpSession(ss[i])]]

NoFile == [exists |-> FALSE, active_timers |-> <<>>, sessions |-> <<>>]

\* _load_data: the file's content, or empty collections when there is no file
load_data(f) ==
    IF f.exists
      THEN [active_timers |-> f.active_timers, sessions |-> f.sessions]
      ELSE [active_timers |-> <<>>, sessions |-> <<>>]

-----------------------------------------------------------------------------
(* Outcomes of a call: the tracker's state after it, and "ok" or the        *)
(* ClickException it raised.                                                *)

Tracker(at, ss, f) == [active_timers |-> at, sessions |-> ss, data_file |-> f]

Ok(at, ss, f) ==
    [active_timers |-> at, sessions |-> ss, data_file |-> f,
     result |-> "ok", detail |-> <<>>, returned |-> 0]

Raise(self, message, detail) ==
    [active_timers |-> self.active_timers, sessions |-> self.sessions,
     data_file |-> self.data_file, result |-> message, detail |-> detail,
     returned |-> 0]

\* the state after a mutation followed by self._save_data()
Saved(at, ss) == Ok(at, ss, save_data(at, ss))

\* the same, for a call that returns a count
SavedReturning(at, ss, count) == [Saved(at, ss) EXCEPT !.returned = count]

-----------------------------------------------------------------------------
(* Timers *)

\* the entry start_timer stores, lines 91-99
NewTimer(main_category, subcategory, description, start_time) ==
    [start_time |-> IsoFormat(start_time),
     main_category |-> main_category,
     subcategory |-> subcategory,
     description |-> description,
     accumulated_seconds |-> 0,
     paused |-> FALSE,
     pause_time |-> None]

\* variant: accumulated_seconds = elapsed instead of += elapsed
PausedTimer_Overwrites(timer_data, clock) ==
    [timer_data EXCEPT
        !.accumulated_seconds = clock - FromIsoFormat(timer_data.start_time).t,
        !.paused = TRUE,
        !.pause_time = IsoFormat(DateTime(clock)),
        !.start_time = None]

\* the entry pause_timer leaves, lines 114-120
PausedTimer(timer_data, clock) ==
    LET start_time == FromIsoFormat(timer_data.start_time)
        elapsed == clock - start_time.t
    IN  [timer_data EXCEPT
            !.accumulated_seconds = @ + elapsed,
            !.paused = TRUE,
            !.pause_time = IsoFormat(DateTime(clock)),
            !.start_time = None]

\* variant: resuming starts the count again
ResumedTimer_ResetsAccumulated(timer_data, clock) ==
    [timer_data EXCEPT
        !.accumulated_seconds = 0,
        !.paused = FALSE,
        !.start_time = IsoFormat(DateTime(clock)),
        !.pause_time = None]

\* variant: resuming leaves pause_time as it was
ResumedTimer_KeepsPauseTime(timer_data, clock) ==
    [timer_data EXCEPT
        !.paused = FALSE,
        !.start_time = IsoFormat(DateTime(clock))]

\* the entry resume_timer leaves, lines 136-138
ResumedTimer(timer_data, clock) ==
    [timer_data EXCEPT
        !.paused = FALSE,
        !.start_time = IsoFormat(DateTime(clock)),
        !.pause_time = None]

\* the session of EndedSession with another total
EndedWith(timer_data, count, clock, total_seconds) ==
    LET running == ~timer_data.paused
        end_time ==
            IF running THEN DateTime(clock) ELSE FromIsoFormat(timer_data.pause_time)
        start_time ==
            IF running
              THEN FromIsoFormat(timer_data.start_time)
              ELSE FromIsoFormat(timer_data.pause_time)
    IN  [id |-> count + 1,
         main_category |-> timer_data.main_category,
         subcategory |-> timer_data.subcategory,
         description |-> timer_data.description,
         start_time |-> IsoFormat(start_time),
         end_time |-> IsoFormat(end_time),
         duration |-> TimedeltaStr(total_seconds),
         duration_hours |-> total_seconds \div SecondsPerHour,
         week |-> IsoWeek(start_time)]

\* variant: the time since start_time is not added for a Running timer
EndedSession_AccumulatedOnly(timer_data, count, clock) ==
    EndedWith(timer_data, count, clock, timer_data.accumulated_seconds)

\* variant: the time since pause_time is added for a Paused timer
EndedSession_CountsPause(timer_data, count, clock) ==
    EndedWith(timer_data, count, clock,
              timer_data.accumulated_seconds
                + (IF timer_data.paused
                     THEN clock - FromIsoFormat(timer_data.pause_time).t
                     ELSE clock - FromIsoFormat(timer_data.start_time).t))

\* variant: ids are counted from zero
EndedSession_ZeroBased(timer_data, count, clock) ==
    [EndedWith(timer_data, count, clock,
               timer_data.accumulated_seconds
                 + (IF timer_data.paused
                      THEN 0
                      ELSE clock - FromIsoFormat(timer_data.start_time).t))
        EXCEPT !.id = count]

\* variant: a Paused timer's session ends at the time of the call
EndedSession_EndsNow(timer_data, count, clock) ==
    [EndedWith(timer_data, count, clock,
               timer_data.accumulated_seconds
                 + (IF timer_data.paused
                      THEN 0
                      ELSE clock - FromIsoFormat(timer_data.start_time).t))
        EXCEPT !.end_time = IsoFormat(DateTime(clock))]

\* the session end_timer builds from a timer, lines 217-242
EndedSession(timer_data, count, clock) ==
    LET running == ~timer_data.paused
        total_seconds ==
            IF running
              THEN timer_data.accumulated_seconds
                     + (clock - FromIsoFormat(timer_data.start_time).t)
              ELSE timer_data.accumulated_seconds
        end_time ==
            IF running THEN DateTime(clock) ELSE FromIsoFormat(timer_data.pause_time)
        \* 'initial_start_time' is never stored, so .get() falls through to pause_time
        start_time ==
            IF running
              THEN FromIsoFormat(timer_data.start_time)
              ELSE FromIsoFormat(timer_data.pause_time)
    IN  [id |-> count + 1,
         main_category |-> timer_data.main_category,
         subcategory |-> timer_data.subcategory,
         description |-> timer_data.description,
         start_time |-> IsoFormat(start_time),
         end_time |-> IsoFormat(end_time),
         duration |-> TimedeltaStr(total_seconds),
         duration_hours |-> total_seconds \div SecondsPerHour,
         week |-> IsoWeek(start_time)]

NoArg == "None"

Truthy(x) == x # NoArg /\ x # ""

\* variant: without both arguments the first active timer is ended, however many there are
end_timer_First(self, main_category, subcategory, clock) ==
    LET at == self.active_timers
        given == Truthy(main_category) /\ Truthy(subcategory)
        timer_key ==
            IF given THEN TimerKey(main_category, subcategory) ELSE at[1].key
    IN  IF Len(at) = 0 THEN Raise(self, "No active timers!", <<>>)
        ELSE IF ~HasKey(at, timer_key) THEN Raise(self, "No active timer found", timer_key)
        ELSE Saved(Del(at, timer_key),
                   Append(self.sessions,
                          EndedSession(Get(at, timer_key), Len(self.sessions), clock)))

end_timer(self, main_category, subcategory, clock) ==
    LET at == self.active_timers
        given == Truthy(main_category) /\ Truthy(subcategory)
        timer_key ==
            IF given THEN TimerKey(main_category, subcategory) ELSE at[1].key
    IN  IF Len(at) = 0 THEN Raise(self, "No active timers!", <<>>)
        ELSE IF ~given /\ Len(at) # 1 THEN Raise(self, "Multiple timers active", <<>>)
        ELSE IF ~HasKey(at, timer_key) THEN Raise(self, "No active timer found", timer_key)
        ELSE Saved(Del(at, timer_key),
                   Append(self.sessions,
                          EndedSession(Get(at, timer_key), Len(self.sessions), clock)))

\* lines 78-82: end every timer of list(self.active_timers.keys()), in order
RECURSIVE EndEach(_, _, _)
EndEach(self, keys, clock) ==
    IF keys = <<>> THEN Ok(self.active_timers, self.sessions, self.data_file)
    ELSE LET timer_data == Get(self.active_timers, Head(keys))
             r == end_timer(self, timer_data.main_category, timer_data.subcategory, clock)
         IN  IF r.result # "ok" THEN r ELSE EndEach(r, Tail(keys), clock)

\* lines 62-67: the subcategory must be in the category's list
ValidSubcategory(main_category, subcategory) ==
    subcategory \in Range(get_subcategories(main_category))

\* variant: the backdating offset is dropped
StartNew_NoOffset(self, main_category, subcategory, description, offset_minutes, clock) ==
    Saved(Put(self.active_timers, TimerKey(main_category, subcategory),
              NewTimer(main_category, subcategory, description, DateTime(clock))),
          self.sessions)

\* lines 86-100
StartNew(self, main_category, subcategory, description, offset_minutes, clock) ==
    LET start_time == DateTime(clock - offset_minutes * SecondsPerMinute)
        timer_key == TimerKey(main_category, subcategory)
    IN  Saved(Put(self.active_timers, timer_key,
                  NewTimer(main_category, subcategory, description, start_time)),
              self.sessions)

\* variant: on confirmation only the first active timer is ended
start_timer_EndsOne(self, main_category, subcategory, description, offset_minutes, confirm, clock) ==
    IF ~ValidSubcategory(main_category, subcategory)
      THEN Raise(self, "Invalid subcategory!", get_subcategories(main_category))
    ELSE IF Len(self.active_timers) > 0
      THEN IF confirm
             THEN LET r == EndEach(self, <<Head(Keys(self.active_timers))>>, clock)
                  IN  IF r.result # "ok" THEN r
                      ELSE StartNew(r, main_category, subcategory, description,
                                    offset_minutes, clock)
             ELSE Raise(self, "Please stop the current timer before starting a new one.", <<>>)
    ELSE StartNew(self, main_category, subcategory, description, offset_minutes, clock)

\* variant: on confirmation the new timer is started beside the active ones
start_timer_KeepsOthers(self, main_category, subcategory, description, offset_minutes, confirm, clock) ==
    IF ~ValidSubcategory(main_category, subcategory)
      THEN Raise(self, "Invalid subcategory!", get_subcategories(main_category))
    ELSE IF Len(self.active_timers) > 0 /\ ~confirm
      THEN Raise(self, "Please stop the current timer before starting a new one.", <<>>)
    ELSE StartNew(self, main_category, subcategory, description, offset_minutes, clock)

\* variant: the active timers are dealt with before the subcategory is checked
start_timer_EndsFirst(self, main_category, subcategory, description, offset_minutes, confirm, clock) ==
    LET r == IF Len(self.active_timers) > 0
               THEN EndEach(self, Keys(self.active_timers), clock)
               ELSE Ok(self.active_timers, self.sessions, self.data_file)
    IN  IF r.result # "ok" THEN r
        ELSE IF ~ValidSubcategory(main_category, subcategory)
          THEN [r EXCEPT !.result = "Invalid subcategory!",
                         !.detail = get_subcategories(main_category)]
        ELSE StartNew(r, main_category, subcategory, description, offset_minutes, clock)

start_timer(self, main_category, subcategory, description, offset_minutes, confirm, clock) ==
    IF ~ValidSubcategory(main_category, subcategory)
      THEN Raise(self, "Invalid subcategory!", get_subcategories(main_category))
    ELSE IF Len(self.active_timers) > 0
      THEN IF confirm
             THEN LET r == EndEach(self, Keys(self.active_timers), clock)
                  IN  IF r.result # "ok" THEN r
                      ELSE StartNew(r, main_category, subcategory, description,
                                    offset_minutes, clock)
             ELSE Raise(self, "Please stop the current timer before starting a new one.", <<>>)
    ELSE StartNew(self, main_category, subcategory, description, offset_minutes, clock)

\* variant: with several timers active, the first one is paused
pause_timer_First(self, clock) ==
    LET at == self.active_timers
    IN  IF Len(at) = 0 THEN Raise(self, "No active timers to pause.", <<>>)
        ELSE IF at[1].data.paused THEN Raise(self, "already paused", at[1].key)
        ELSE Saved(Put(at, at[1].key, PausedTimer(at[1].data, clock)), self.sessions)

pause_timer(self, clock) ==
    LET at == self.active_timers
    IN  IF Len(at) = 0 THEN Raise(self, "No active timers to pause.", <<>>)
        ELSE IF Len(at) > 1 THEN Raise(self, "Multiple timers active", <<>>)
        ELSE IF at[1].data.paused THEN Raise(self, "already paused", at[1].key)
        ELSE Saved(Put(at, at[1].key, PausedTimer(at[1].data, clock)), self.sessions)

resume_timer(self, clock) ==
    LET at == self.active_timers
    IN  IF Len(at) = 0 THEN Raise(self, "No paused timers to resume.", <<>>)
        ELSE IF Len(at) > 1 THEN Raise(self, "Multiple timers active", <<>>)
        ELSE IF ~at[1].data.paused THEN Raise(self, "not paused", at[1].key)
        ELSE Saved(Put(at, at[1].key, ResumedTimer(at[1].data, clock)), self.sessions)

-----------------------------------------------------------------------------
(* Sessions *)

\* next((s for s in self.sessions if s['id'] == session_id), None), as an index; 0 for None
FindSession(ss, session_id) ==
    IF \E i \in 1..Len(ss) : ss[i].id = session_id
      THEN CHOOSE i \in 1..Len(ss) :
             /\ ss[i].id = session_id
             /\ \A j \in 1..(i - 1) : ss[j].id # session_id
      ELSE 0

\* list.remove(x): drops the first element equal to x
RemoveAt(ss, i) == [j \in 1..(Len(ss) - 1) |-> IF j < i THEN ss[j] ELSE ss[j + 1]]

\* variant: the duration is not added to the start
AddedSession_NoEnd(date, duration_hours, main_category, subcategory, description, count) ==
    [id |-> count + 1,
     main_category |-> main_category,
     subcategory |-> subcategory,
     description |-> description,
     start_time |-> date,
     end_time |-> date,
     duration |-> TimedeltaStr(duration_hours * SecondsPerHour),
     duration_hours |-> duration_hours,
     week |-> IsoWeek(date)]

\* the session add_session builds, lines 343-356
AddedSession(date, duration_hours, main_category, subcategory, description, count) ==
    LET start_time == date
        end_time == DateTime(start_time.t + duration_hours * SecondsPerHour)
    IN  [id |-> count + 1,
         main_category |-> main_category,
         subcategory |-> subcategory,
         description |-> description,
         start_time |-> start_time,
         end_time |-> end_time,
         duration |-> TimedeltaStr(duration_hours * SecondsPerHour),
         duration_hours |-> duration_hours,
         week |-> IsoWeek(start_time)]

\* variant: the subcategory is not checked
add_session_Unchecked(self, date, duration_hours, main_category, subcategory, description) ==
    Saved(self.active_timers,
          Append(self.sessions,
                 AddedSession(date, duration_hours, main_category, subcategory,
                              description, Len(self.sessions))))

\* variant: the new id is one more than the largest id in the list
add_session_FreshId(self, date, duration_hours, main_category, subcategory, description) ==
    LET ids == {self.sessions[i].id : i \in 1..Len(self.sessions)}
        largest == IF ids = {} THEN 0 ELSE CHOOSE m \in ids : \A n \in ids : n <= m
    IN  IF ~ValidSubcategory(main_category, subcategory)
          THEN Raise(self, "Invalid subcategory!", get_subcategories(main_category))
          ELSE Saved(self.active_timers,
                     Append(self.sessions,
                            AddedSession(date, duration_hours, main_category, subcategory,
                                         description, largest)))

add_session(self, date, duration_hours, main_category, subcategory, description) ==
    IF ~ValidSubcategory(main_category, subcategory)
      THEN Raise(self, "Invalid subcategory!", get_subcategories(main_category))
      ELSE Saved(self.active_timers,
                 Append(self.sessions,
                        AddedSession(date, duration_hours, main_category, subcategory,
                                     description, Len(self.sessions))))

\* variant: the new duration is added to the stored end_time
EditedSession_ExtendsEnd(session, duration_hours) ==
    LET duration_delta == duration_hours * SecondsPerHour
    IN  [session EXCEPT
            !.duration_hours = duration_hours,
            !.duration = TimedeltaStr(duration_delta),
            !.start_time = IF IsString(@) THEN FromIsoFormat(@) ELSE @,
            !.end_time = DateTime(@.t + duration_delta)]

\* variant: end_time is left as it was
EditedSession_KeepsEnd(session, duration_hours) ==
    [session EXCEPT
        !.duration_hours = duration_hours,
        !.duration = TimedeltaStr(duration_hours * SecondsPerHour),
        !.start_time = IF IsString(@) THEN FromIsoFormat(@) ELSE @]

\* the session edit_session leaves, lines 283-293
EditedSession(session, duration_hours) ==
    LET duration_delta == duration_hours * SecondsPerHour
        start_time ==
            IF IsString(session.start_time)
              THEN FromIsoFormat(session.start_time)
              ELSE session.start_time
    IN  [session EXCEPT
            !.duration_hours = duration_hours,
            !.duration = TimedeltaStr(duration_delta),
            !.start_time = start_time,
            !.end_time = DateTime(start_time.t + duration_delta)]

edit_session(self, session_id, duration_hours) ==
    LET i == FindSession(self.sessions, session_id)
    IN  IF i = 0 THEN Raise(self, "No session found", <<session_id>>)
        ELSE Saved(self.active_timers,
                   [self.sessions EXCEPT ![i] = EditedSession(@, duration_hours)])

\* variant: every session with the id is dropped
remove_session_AllWithId(self, session_id) ==
    IF FindSession(self.sessions, session_id) = 0
      THEN Raise(self, "No session found", <<session_id>>)
      ELSE SavedReturning(self.active_timers,
                          SelectSeq(self.sessions, LAMBDA s : s.id # session_id), 1)

remove_session(self, session_id) ==
    LET i == FindSession(self.sessions, session_id)
    IN  IF i = 0 THEN Raise(self, "No session found", <<session_id>>)
        ELSE SavedReturning(self.active_timers, RemoveAt(self.sessions, i), 1)

\* variant: removing all sessions empties the active timers too
remove_all_sessions_ClearsTimers(self) ==
    SavedReturning(<<>>, <<>>, Len(self.sessions))

\* lines 308-313
remove_all_sessions(self) ==
    SavedReturning(self.active_timers, <<>>, Len(self.sessions))

\* the sessions a bulk removal keeps, lines 318-321 and 330
KeptByDate(ss, target_date) ==
    SelectSeq(ss, LAMBDA s : DateOf(FromIsoFormat(Str(s.start_time))) # target_date)

KeptByWeek(ss, target_week) == SelectSeq(ss, LAMBDA s : s.week # target_week)

remove_sessions_by_date(self, target_date) ==
    LET kept == KeptByDate(self.sessions, target_date)
    IN  SavedReturning(self.active_timers, kept, Len(self.sessions) - Len(kept))

\* variant: the offset is ignored
remove_sessions_by_week_ThisWeek(self, week_offset, clock) ==
    LET kept == KeptByWeek(self.sessions, IsoWeek(DateTime(clock)))
    IN  SavedReturning(self.active_timers, kept, Len(self.sessions) - Len(kept))

remove_sessions_by_week(self, week_offset, clock) ==
    LET target_week == IsoWeek(DateTime(clock + week_offset * SecondsPerWeek))
        kept == KeptByWeek(self.sessions, target_week)
    IN  SavedReturning(self.active_timers, kept, Len(self.sessions) - Len(kept))

-----------------------------------------------------------------------------
(* Reports and status: what they print, as a value *)

\* sum(...) of a sequence of numbers
RECURSIVE Sum(_)
Sum(lengths) == IF lengths = <<>> THEN 0 ELSE Head(lengths) + Sum(Tail(lengths))

\* dict.get(key, 0)
GetOr0(d, k) == IF HasKey(d, k) THEN Get(d, k) ELSE 0

\* lines 469-478: the two dicts of totals after the loop over the sessions
RECURSIVE SummaryTotals(_, _, _)
SummaryTotals(ss, category_totals, subcategory_totals) ==
    IF ss = <<>>
      THEN [category_totals |-> category_totals, subcategory_totals |-> subcategory_totals]
      ELSE LET main_cat == Head(ss).main_category
               sub_cat == Head(ss).subcategory
               duration == Head(ss).duration_hours
               subs == IF HasKey(subcategory_totals, main_cat)
                         THEN Get(subcategory_totals, main_cat) ELSE <<>>
           IN  SummaryTotals(
                   Tail(ss),
                   Put(category_totals, main_cat,
                       GetOr0(category_totals, main_cat) + duration),
                   Put(subcategory_totals, main_cat,
                       Put(subs, sub_cat, GetOr0(subs, sub_cat) + duration)))

\* variant: the categories are printed in the order the sessions brought them up
generate_summary_report_AsMet(ss) ==
    LET t == SummaryTotals(ss, <<>>, <<>>)
    IN  [title |-> "Time Tracking Summary",
         groups |-> [i \in 1..Len(t.category_totals) |->
                       [main_cat |-> t.category_totals[i].key,
                        lines |-> Get(t.subcategory_totals, t.category_totals[i].key),
                        total |-> t.category_totals[i].data]],
         total_hours |-> Sum([i \in 1..Len(t.category_totals) |->
                                 t.category_totals[i].data])]

\* _generate_summary_report, lines 461-490
generate_summary_report(ss) ==
    LET t == SummaryTotals(ss, <<>>, <<>>)
        printed == SelectSeq(Categories, LAMBDA c : HasKey(t.category_totals, c))
    IN  [title |-> "Time Tracking Summary",
         groups |-> [i \in 1..Len(printed) |->
                       [main_cat |-> printed[i],
                        lines |-> Get(t.subcategory_totals, printed[i]),
                        total |-> Get(t.category_totals, printed[i])]],
         total_hours |-> Sum([i \in 1..Len(t.category_totals) |->
                                 t.category_totals[i].data])]

\* _generate_detailed_report, lines 427-459; line 440 hands start_time to
\* fromisoformat as it is, which raises TypeError on a datetime object
generate_detailed_report(ss) ==
    [title |-> "Detailed Time Tracking Report",
     rows |-> [i \in 1..Len(ss) |->
                 [id |-> ss[i].id,
                  main_category |-> ss[i].main_category,
                  subcategory |-> ss[i].subcategory,
                  description |-> ss[i].description,
                  duration_hours |-> ss[i].duration_hours,
                  date |-> DateOf(FromIsoFormat(Str(ss[i].start_time))),
                  week |-> IsoWeek(FromIsoFormat(ss[i].start_time))]],
     total_hours |-> Sum([i \in 1..Len(ss) |-> ss[i].duration_hours])]

\* sorted(sessions_by_date.items()): the dates in ascending order
RECURSIVE Sorted(_)
Sorted(dates) ==
    IF dates = {} THEN <<>>
    ELSE LET first == CHOOSE d \in dates : \A e \in dates : d <= e
         IN  <<first>> \o Sorted(dates \ {first})

\* _generate_cospend_report, lines 404-425
generate_cospend_report(ss) ==
    LET StartDate(x) == DateOf(FromIsoFormat(Str(x.start_time)))
        dates == Sorted({StartDate(ss[i]) : i \in 1..Len(ss)})
    IN  [title |-> "Cospend Time Tracking Report",
         days |-> [i \in 1..Len(dates) |->
                     [date |-> dates[i],
                      day_sessions |->
                         SelectSeq(ss, LAMBDA x : StartDate(x) = dates[i])]]]

\* what a call that only prints leaves: the tracker as it was, and the output
Printed(self, output) ==
    [Ok(self.active_timers, self.sessions, self.data_file) EXCEPT !.detail = output]

\* variant: the report turns the start_time strings into datetime objects in place
generate_report_Converts(self, week, format_type) ==
    [Ok(self.active_timers,
        [i \in 1..Len(self.sessions) |->
            [self.sessions[i] EXCEPT
                !.start_time = IF IsString(@) THEN FromIsoFormat(@) ELSE @]],
        self.data_file)
       EXCEPT !.detail = [title |-> "Detailed Time Tracking Report"]]

\* generate_report(week, format_type), lines 385-402; week is <<>> for None
generate_report(self, week, format_type) ==
    LET filtered_sessions ==
            IF week # <<>>
              THEN SelectSeq(self.sessions, LAMBDA x : x.week = week[1])
              ELSE self.sessions
    IN  IF self.sessions = <<>> THEN Printed(self, [title |-> "No sessions recorded yet!"])
        ELSE IF filtered_sessions = <<>>
          THEN Printed(self, [title |-> "No sessions found for week"])
        ELSE IF format_type = "summary"
          THEN Printed(self, generate_summary_report(filtered_sessions))
        ELSE IF format_type = "cospend"
          THEN Printed(self, generate_cospend_report(filtered_sessions))
        ELSE IF \E i \in 1..Len(filtered_sessions) :
                   ~IsString(filtered_sessions[i].start_time)
          THEN Raise(self, "TypeError", <<>>)
        ELSE Printed(self, generate_detailed_report(filtered_sessions))

\* the status command, lines 633-659
status(tracker, clock) ==
    LET at == tracker.active_timers
        Line(e) ==
            [timer_key |-> e.key,
             description |-> e.data.description,
             status |-> IF e.data.paused THEN "Paused" ELSE "Running",
             total_seconds |->
                IF e.data.paused
                  THEN e.data.accumulated_seconds
                  ELSE e.data.accumulated_seconds
                         + (clock - FromIsoFormat(e.data.start_time).t)]
    IN  IF Len(at) = 0 THEN Printed(tracker, [title |-> "No active timers"])
        ELSE Printed(tracker, [title |-> "Active Timers:",
                               lines |-> [i \in 1..Len(at) |-> Line(at[i])]])

-----------------------------------------------------------------------------
(* The commands of the CLI. @cli.command() files each function under its name *)
(* in the group's dict of commands, in the order of the source: a later      *)
(* function of the same name takes the place of the earlier one.             *)

\* the command functions and the tracker method each one calls, lines 499-659
Commands ==
    <<[name |-> "start", calls |-> "start_timer"],
      [name |-> "add", calls |-> "add_session"],
      [name |-> "edit", calls |-> "edit_session"],
      [name |-> "remove", calls |-> "remove_session"],
      [name |-> "end", calls |-> "end_timer"],
      [name |-> "report", calls |-> "generate_report"],
      [name |-> "list", calls |-> "generate_report"],
      [name |-> "pause", calls |-> "pause_timer"],
      [name |-> "resume", calls |-> "resume_timer"],
      [name |-> "resume", calls |-> "remove_timer"],
      [name |-> "status", calls |-> "active_timers"],
      [name |-> "categories", calls |-> "get_subcategories"]>>

\* the attributes of a TimeTracker that the commands use
Methods ==
    {"start_timer", "pause_timer", "resume_timer", "end_timer", "add_session",
     "edit_session", "remove_session", "remove_all_sessions",
     "remove_sessions_by_date", "remove_sessions_by_week", "generate_report",
     "get_subcategories", "active_timers", "categories"}

\* self.commands[name]: the last function filed under the name
Registered(name) ==
    LET last_one == CHOOSE i \in 1..Len(Commands) :
                       /\ Commands[i].name = name
                       /\ \A j \in (i + 1)..Len(Commands) : Commands[j].name # name
    IN  Commands[last_one].calls

\* int(offset) of the start command, line 516: an optional sign and decimal digits
DecimalDigits == <<"0", "1", "2", "3", "4", "5", "6", "7", "8", "9">>

IsDigit(c) == \E d \in 1..Len(DecimalDigits) : DecimalDigits[d] = c

DigitOf(c) == (CHOOSE d \in 1..Len(DecimalDigits) : DecimalDigits[d] = c) - 1

RECURSIVE Number(_)
Number(digits) ==
    IF digits = <<>> THEN 0
    ELSE Number(SubSeq(digits, 1, Len(digits) - 1)) * Len(DecimalDigits)
           + DigitOf(digits[Len(digits)])

Signed(text) == text # <<>> /\ Head(text) \in {"-", "+"}

IsInt(text) ==
    LET digits == IF Signed(text) THEN Tail(text) ELSE text
    IN  digits # <<>> /\ \A i \in 1..Len(digits) : IsDigit(digits[i])

int(text) ==
    IF Signed(text)
      THEN IF Head(text) = "-" THEN 0 - Number(Tail(text)) ELSE Number(Tail(text))
      ELSE Number(text)

\* `timetrack start MAIN SUB -d DESCRIPTION -o OFFSET`, lines 505-516
start(tracker, main_category, subcategory, description, offset, confirm, clock) ==
    IF ~IsInt(offset) THEN Raise(tracker, "ValueError", offset)
    ELSE start_timer(tracker, main_category, subcategory, description, int(offset), confirm, clock)

\* `timetrack resume`
resume(tracker, clock) ==
    LET method == Registered("resume")
    IN  IF method \notin Methods
          THEN Raise(tracker, "AttributeError", <<method>>)
          ELSE resume_timer(tracker, clock)

-----------------------------------------------------------------------------
(* Inputs: the calls the model makes *)

Description == "review"

\* start_timer(main_category, subcategory, description, offset_minutes)
StartCalls ==
    {<<"Sales", "Direct sales", Description, 0>>,
     <<"Sales", "Direct sales", Description, 60>>,
     <<"Sales", "MetaLand", Description, 0>>,
     <<"Nope", "Direct sales", Description, 0>>}

\* end_timer(main_category, subcategory)
EndCalls ==
    {<<NoArg, NoArg>>, <<"Sales", NoArg>>, <<"Sales", "Direct sales">>,
     <<"Other", "MetaLand">>}

\* add_session(date, duration_hours, main_category, subcategory, description)
AddCalls ==
    {<<DateTime(SecondsPerWeek), 1, "Other", "MetaLand", Description>>,
     <<DateTime(SecondsPerWeek), 1, "Other", "CRM work", Description>>,
     <<DateTime(SecondsPerWeek), 1, "Nope", "MetaLand", Description>>}

\* edit_session(session_id, duration_hours)
Hours == {2}

SessionIds == 1..MaxStored

\* remove_sessions_by_date(target_date), remove_sessions_by_week(week_offset)
TargetDates == {0, 7}

WeekOffsets == {0, 1}

-----------------------------------------------------------------------------
(* The state machine *)

Self == Tracker(active_timers, sessions, data_file)

NoCall ==
    [op |-> "init", result |-> "ok", detail |-> <<>>, returned |-> 0,
     main_category |-> "", subcategory |-> "", description |-> "",
     offset_minutes |-> 0, prompted |-> FALSE, confirm |-> FALSE, session_id |-> 0,
     duration_hours |-> 0, date |-> None, target_date |-> 0, week_offset |-> 0,
     clock |-> 0, week |-> <<>>, format_type |-> ""]

Call(op, r) ==
    [NoCall EXCEPT !.op = op, !.result = r.result, !.detail = r.detail,
                   !.returned = r.returned, !.clock = now]

KeySet(at) == {at[i].key : i \in 1..Len(at)}

\* history of a timer: the seconds it has been Running (from its start_time on)
\* and Paused, and whether it was ever paused
Fresh(seconds) == [ran |-> seconds, idle |-> 0, was_paused |-> FALSE]

\* the history of the timers of at: `started` begin theirs, the others keep it
HistAfter(at, started, seconds) ==
    [k \in KeySet(at) |->
        IF k \in started \/ k \notin DOMAIN hist THEN Fresh(seconds) ELSE hist[k]]

\* the call's effect on the tracker, and what the history records of it
Does(call, r, h) ==
    /\ active_timers' = r.active_timers
    /\ sessions' = r.sessions
    /\ data_file' = r.data_file
    /\ hist' = h
    /\ last' = call
    /\ pre' = [active_timers |-> active_timers, sessions |-> sessions,
               data_file |-> data_file, hist |-> hist]
    /\ UNCHANGED <<now, race>>

\* no invocation runs beside the tracker
NoRace == [bytes |-> 0, initial |-> NoFile, events |-> <<>>, inv |-> <<>>]

Init ==
    /\ active_timers = <<>>
    /\ sessions = <<>>
    /\ data_file = NoFile
    /\ now = 0
    /\ hist = [k \in {} |-> Fresh(0)]
    /\ last = NoCall
    /\ pre = [active_timers |-> <<>>, sessions |-> <<>>, data_file |-> NoFile,
              hist |-> [k \in {} |-> Fresh(0)]]
    /\ race = NoRace

\* time passes
Tick ==
    /\ now < MaxTicks * SecondsPerHour
    /\ now' = now + SecondsPerHour
    /\ hist' = [k \in DOMAIN hist |->
                  IF Get(active_timers, k).paused
                    THEN [hist[k] EXCEPT !.idle = @ + SecondsPerHour]
                    ELSE [hist[k] EXCEPT !.ran = @ + SecondsPerHour]]
    /\ last' = [NoCall EXCEPT !.op = "tick", !.clock = now']
    /\ pre' = [active_timers |-> active_timers, sessions |-> sessions,
               data_file |-> data_file, hist |-> hist]
    /\ UNCHANGED <<active_timers, sessions, data_file, race>>

\* a new invocation of the CLI: TimeTracker() reads the state file
Load ==
    LET d == load_data(data_file)
    IN  Does([NoCall EXCEPT !.op = "load", !.clock = now],
             Ok(d.active_timers, d.sessions, data_file),
             HistAfter(d.active_timers, {}, 0))

StartTimer(cap) ==
    \E c \in StartCalls, confirm \in BOOLEAN :
        LET r == start_timer(Self, c[1], c[2], c[3], c[4], confirm, now)
            \* click.confirm is reached only with a valid subcategory and an active timer
            prompted == ValidSubcategory(c[1], c[2]) /\ Len(active_timers) > 0
        IN  /\ Len(sessions) + Len(active_timers) <= cap
            /\ Does([Call("start_timer", r) EXCEPT
                        !.main_category = c[1], !.subcategory = c[2],
                        !.description = c[3], !.offset_minutes = c[4],
                        !.prompted = prompted, !.confirm = prompted /\ confirm],
                    r,
                    HistAfter(r.active_timers,
                              IF r.result = "ok" THEN {TimerKey(c[1], c[2])} ELSE {},
                              c[4] * SecondsPerMinute))

PauseTimer ==
    LET r == pause_timer(Self, now)
    IN  Does(Call("pause_timer", r), r,
             IF r.result = "ok"
               THEN [k \in DOMAIN hist |-> [hist[k] EXCEPT !.was_paused = TRUE]]
               ELSE hist)

ResumeTimer ==
    LET r == resume_timer(Self, now)
    IN  Does(Call("resume_timer", r), r, hist)

EndTimer(cap) ==
    \E a \in EndCalls :
        LET r == end_timer(Self, a[1], a[2], now)
        IN  /\ Len(sessions) < cap
            /\ Does([Call("end_timer", r) EXCEPT
                        !.main_category = a[1], !.subcategory = a[2]],
                    r, HistAfter(r.active_timers, {}, 0))

AddSession(cap) ==
    \E c \in AddCalls :
        LET r == add_session(Self, c[1], c[2], c[3], c[4], c[5])
        IN  /\ Len(sessions) < cap
            /\ Does([Call("add_session", r) EXCEPT
                        !.date = c[1], !.duration_hours = c[2],
                        !.main_category = c[3], !.subcategory = c[4],
                        !.description = c[5]],
                    r, hist)

EditSession ==
    \E id \in SessionIds, h \in Hours :
        LET r == edit_session(Self, id, h)
        IN  Does([Call("edit_session", r) EXCEPT
                     !.session_id = id, !.duration_hours = h],
                 r, hist)

RemoveSession ==
    \E id \in SessionIds :
        LET r == remove_session(Self, id)
        IN  Does([Call("remove_session", r) EXCEPT !.session_id = id], r, hist)

RemoveAllSessions ==
    LET r == remove_all_sessions(Self)
    IN  Does(Call("remove_all_sessions", r), r, hist)

RemoveSessionsByDate ==
    \E target_date \in TargetDates :
        LET r == remove_sessions_by_date(Self, target_date)
        IN  Does([Call("remove_sessions_by_date", r) EXCEPT
                     !.target_date = target_date],
                 r, hist)

RemoveSessionsByWeek ==
    \E week_offset \in WeekOffsets :
        LET r == remove_sessions_by_week(Self, week_offset, now)
        IN  Does([Call("remove_sessions_by_week", r) EXCEPT
                     !.week_offset = week_offset],
                 r, hist)

\* the whole tracker, as time passes
Next ==
    \/ Tick
    \/ Load
    \/ StartTimer(MaxSessions)
    \/ PauseTimer
    \/ ResumeTimer
    \/ EndTimer(MaxSessions)
    \/ AddSession(MaxSessions)
    \/ EditSession
    \/ RemoveSession
    \/ RemoveAllSessions
    \/ RemoveSessionsByDate
    \/ RemoveSessionsByWeek

Spec == Init /\ [][Next]_vars

\* the whole tracker at one instant, with room for more sessions
NextStore ==
    \/ Load
    \/ StartTimer(MaxStored)
    \/ PauseTimer
    \/ ResumeTimer
    \/ EndTimer(MaxStored)
    \/ AddSession(MaxStored)
    \/ EditSession
    \/ RemoveSession
    \/ RemoveAllSessions
    \/ RemoveSessionsByDate
    \/ RemoveSessionsByWeek

SpecStore == Init /\ [][NextStore]_vars

\* add_session calls for the reports: two categories, three subcategories, two weeks
ReportedCalls ==
    {<<DateTime(0), 1, "Sales", "Direct sales", Description>>,
     <<DateTime(0), 2, "Sales", "CRM work", Description>>,
     <<DateTime(SecondsPerWeek), 1, "Other", "MetaLand", Description>>,
     <<DateTime(SecondsPerWeek), 2, "Sales", "Direct sales", Description>>}

\* generate_report(week, format_type)
Weeks == {<<>>, <<1>>, <<2>>}

Formats == {"detailed", "summary", "cospend"}

AddReported ==
    \E c \in ReportedCalls :
        LET r == add_session(Self, c[1], c[2], c[3], c[4], c[5])
        IN  /\ Len(sessions) < MaxReported
            /\ Does([Call("add_session", r) EXCEPT
                        !.date = c[1], !.duration_hours = c[2],
                        !.main_category = c[3], !.subcategory = c[4],
                        !.description = c[5]],
                    r, hist)

GenerateReport ==
    \E week \in Weeks, format_type \in Formats :
        LET r == generate_report(Self, week, format_type)
        IN  Does([Call("generate_report", r) EXCEPT
                     !.week = week, !.format_type = format_type],
                 r, hist)

Status ==
    LET r == status(Self, now)
    IN  Does(Call("status", r), r, hist)

\* `timetrack resume`
ResumeCommand ==
    LET r == resume(Self, now)
    IN  Does(Call("resume", r), r, hist)

\* the commands that read, beside those that make what they read
NextCli ==
    \/ Load
    \/ AddReported
    \/ StartTimer(MaxReported)
    \/ PauseTimer
    \/ ResumeCommand
    \/ EndTimer(MaxReported)
    \/ GenerateReport
    \/ Status

SpecCli == Init /\ [][NextCli]_vars

\* the texts given to --offset
Offsets == {<<"0">>, <<"6", "0">>, <<"-", "6", "0">>, <<"+", "6", "0">>, <<"1", "h">>}

StartCommand ==
    \E offset \in Offsets, confirm \in BOOLEAN :
        LET r == start(Self, "Sales", "Direct sales", Description, offset, confirm, now)
            prompted == IsInt(offset) /\ Len(active_timers) > 0
            offset_minutes == IF IsInt(offset) THEN int(offset) ELSE 0
        IN  /\ Len(sessions) + Len(active_timers) <= MaxBackdated
            /\ Does([Call("start", r) EXCEPT
                        !.main_category = "Sales", !.subcategory = "Direct sales",
                        !.description = Description, !.offset_minutes = offset_minutes,
                        !.prompted = prompted, !.confirm = prompted /\ confirm],
                    r,
                    HistAfter(r.active_timers,
                              IF r.result = "ok"
                                THEN {TimerKey("Sales", "Direct sales")} ELSE {},
                              offset_minutes * SecondsPerMinute))

\* the timer commands while the clock advances
NextOffset ==
    \/ Tick
    \/ Load
    \/ StartCommand
    \/ PauseTimer
    \/ ResumeTimer
    \/ EndTimer(MaxBackdated)

SpecOffset == Init /\ [][NextOffset]_vars

\* the tracker's operations without the removals
NextCreate ==
    \/ Load
    \/ StartTimer(MaxCreated)
    \/ PauseTimer
    \/ ResumeTimer
    \/ EndTimer(MaxCreated)
    \/ AddSession(MaxCreated)
    \/ EditSession

SpecCreate == Init /\ [][NextCreate]_vars

\* a state file that holds two timers, one Running and one Paused
ExistingTimers ==
    <<[key |-> TimerKey("Sales", "Direct sales"),
       data |-> NewTimer("Sales", "Direct sales", Description, DateTime(0))],
      [key |-> TimerKey("Other", "MetaLand"),
       data |-> PausedTimer(NewTimer("Other", "MetaLand", Description,
                                     DateTime(0 - SecondsPerHour)), 0)]>>

InitExisting ==
    /\ data_file = save_data(ExistingTimers, <<>>)
    /\ active_timers = load_data(data_file).active_timers
    /\ sessions = load_data(data_file).sessions
    /\ now = 0
    /\ hist = [k \in KeySet(ExistingTimers) |->
                 IF Get(ExistingTimers, k).paused
                   THEN [ran |-> SecondsPerHour, idle |-> 0, was_paused |-> TRUE]
                   ELSE Fresh(0)]
    /\ last = NoCall
    /\ pre = [active_timers |-> active_timers, sessions |-> sessions,
              data_file |-> data_file, hist |-> hist]
    /\ race = NoRace

\* the tracker over a state file that already holds several timers
SpecExisting == InitExisting /\ [][NextStore]_vars

-----------------------------------------------------------------------------
(* Two invocations of the CLI on one state file. Each is a process of its own: *)
(* cli() builds a TimeTracker, which reads the file; the command changes that  *)
(* copy; _save_data opens the file for writing, which empties it, and writes   *)
(* the whole text from offset 0 when the file is closed. Nothing locks the     *)
(* file, so the steps of the two invocations interleave freely.                *)

Invocations == {"first", "second"}

\* the command an invocation runs, lines 499-631
Invoke(self, call, clock) ==
    CASE call.op = "start_timer" ->
           start_timer(self, call.main_category, call.subcategory, call.description,
                       call.offset_minutes, call.confirm, clock)
      [] call.op = "pause_timer" -> pause_timer(self, clock)
      [] call.op = "resume" -> resume(self, clock)
      [] call.op = "end_timer" ->
           end_timer(self, call.main_category, call.subcategory, clock)
      [] call.op = "add_session" ->
           add_session(self, call.date, call.duration_hours, call.main_category,
                       call.subcategory, call.description)
      [] call.op = "remove_session" -> remove_session(self, call.session_id)
      [] call.op = "remove_all_sessions" -> remove_all_sessions(self)

RaceCalls ==
    {[NoCall EXCEPT !.op = "start_timer", !.main_category = "Sales",
                    !.subcategory = "Direct sales", !.description = Description,
                    !.confirm = TRUE],
     [NoCall EXCEPT !.op = "start_timer", !.main_category = "Other",
                    !.subcategory = "MetaLand", !.description = Description,
                    !.confirm = TRUE],
     [NoCall EXCEPT !.op = "pause_timer"],
     [NoCall EXCEPT !.op = "resume"],
     [NoCall EXCEPT !.op = "end_timer", !.main_category = NoArg, !.subcategory = NoArg],
     [NoCall EXCEPT !.op = "add_session", !.date = DateTime(SecondsPerWeek),
                    !.duration_hours = 1, !.main_category = "Other",
                    !.subcategory = "MetaLand", !.description = Description],
     [NoCall EXCEPT !.op = "remove_session", !.session_id = 1],
     [NoCall EXCEPT !.op = "remove_all_sessions"]}

\* the state files the invocations find: none, or one timer and one session
RaceFiles ==
    {NoFile,
     save_data(<<[key |-> TimerKey("Other", "MetaLand"),
                  data |-> NewTimer("Other", "MetaLand", Description, DateTime(0))]>>,
               <<AddedSession(DateTime(0), 1, "Sales", "CRM work", Description, 0)>>)}

\* open(self.data_file, 'w'): the file exists and has no bytes; what data_file holds
\* is the text from offset 0 on, and race.bytes the length of the file
Truncated == [exists |-> TRUE, active_timers |-> <<>>, sessions |-> <<>>]

\* The length of the text json.dump writes, with its separators ", " and ": ".
\* The model's numbers other than id and week are floats of whole value, "3600.0".
RECURSIVE Digits(_)
Digits(n) == IF n < 10 THEN 1 ELSE 1 + Digits(n \div 10)

JsonInt(n) == IF n < 0 THEN Len("-") + Digits(0 - n) ELSE Digits(n)

JsonFloat(n) == JsonInt(n) + Len(".0")

JsonString(str) == Len("\"") + Len(str) + Len("\"")

JsonBool(b) == IF b THEN Len("true") ELSE Len("false")

\* isoformat() and str() of a datetime without microseconds have the same length
JsonTime(x) == IF x.rep = "none" THEN Len("null") ELSE JsonString("2024-01-01T00:00:00")

\* str(timedelta): "H:MM:SS", after "D day, " or "D days, " when there are days
JsonDuration(d) ==
    Len("\"\"") + Digits(d.hours) + Len(":MM:SS")
      + (IF d.days = 0 THEN 0
         ELSE JsonInt(d.days) + (IF d.days \in {1, 0 - 1} THEN Len(" day, ") ELSE Len(" days, ")))

JsonPair(name, value) == JsonString(name) + Len(": ") + value

\* "{" or "[", the members separated by ", ", "}" or "]"
JsonJoined(lengths) ==
    Len("{") + Sum(lengths)
      + (IF Len(lengths) > 1 THEN (Len(lengths) - 1) * Len(", ") ELSE 0) + Len("}")

JsonTimer(e) ==
    JsonPair(e.key[1] \o e.key[2] \o e.key[3],
             JsonJoined(<<JsonPair("start_time", JsonTime(e.data.start_time)),
                          JsonPair("main_category", JsonString(e.data.main_category)),
                          JsonPair("subcategory", JsonString(e.data.subcategory)),
                          JsonPair("description", JsonString(e.data.description)),
                          JsonPair("accumulated_seconds",
                                   JsonFloat(e.data.accumulated_seconds)),
                          JsonPair("paused", JsonBool(e.data.paused)),
                          JsonPair("pause_time", JsonTime(e.data.pause_time))>>))

JsonSession(x) ==
    JsonJoined(<<JsonPair("id", JsonInt(x.id)),
                 JsonPair("main_category", JsonString(x.main_category)),
                 JsonPair("subcategory", JsonString(x.subcategory)),
                 JsonPair("description", JsonString(x.description)),
                 JsonPair("start_time", JsonTime(x.start_time)),
                 JsonPair("end_time", JsonTime(x.end_time)),
                 JsonPair("duration", JsonDuration(x.duration)),
                 JsonPair("duration_hours", JsonFloat(x.duration_hours)),
                 JsonPair("week", JsonInt(x.week))>>)

\* the number of bytes of the text of a state file
JsonLength(f) ==
    JsonJoined(<<JsonPair("active_timers",
                          JsonJoined([i \in 1..Len(f.active_timers) |->
                                         JsonTimer(f.active_timers[i])])),
                 JsonPair("sessions",
                          JsonJoined([i \in 1..Len(f.sessions) |->
                                         JsonSession(f.sessions[i])]))>>)

\* the bytes a state file takes on the disk
Bytes(f) == IF f.exists THEN JsonLength(f) ELSE 0

\* the bytes on the disk after a text of `length` bytes is written from offset 0
\* over a file of `bytes` bytes: what lay beyond the text stays
BytesAfterWrite(length, bytes) == IF bytes > length THEN bytes ELSE length

InitRace ==
    /\ data_file \in RaceFiles
    /\ race = [bytes |-> Bytes(data_file),
               initial |-> data_file,
               events |-> <<>>,
               inv |-> [p \in Invocations |->
                          [pc |-> "start", active_timers |-> <<>>, sessions |-> <<>>,
                           call |-> NoCall]]]
    /\ active_timers = <<>>
    /\ sessions = <<>>
    /\ now = 0
    /\ hist = [k \in {} |-> Fresh(0)]
    /\ last = NoCall
    /\ pre = [active_timers |-> <<>>, sessions |-> <<>>, data_file |-> NoFile,
              hist |-> [k \in {} |-> Fresh(0)]]

\* cli(): TimeTracker() reads the file; json.load raises on an empty file and on
\* a text with more bytes after it
RaceLoad(p) ==
    /\ race.inv[p].pc = "start"
    /\ LET d == load_data(data_file)
       IN  race' = [race EXCEPT
                       !.events = Append(@, <<p, "load">>),
                       !.inv[p] =
                          IF race.bytes = Bytes(data_file)
                            THEN [@ EXCEPT !.pc = "loaded",
                                           !.active_timers = d.active_timers,
                                           !.sessions = d.sessions]
                            ELSE [@ EXCEPT !.pc = "crashed"]]
    /\ UNCHANGED <<active_timers, sessions, data_file, now, hist, last, pre>>

\* the call with what came of it
Result(call, r) == [call EXCEPT !.result = r.result]

\* the command runs on the invocation's copy; when it does not raise, _save_data
\* opens the file for writing
RaceOpen(p) ==
    /\ race.inv[p].pc = "loaded"
    /\ \E call \in RaceCalls :
          LET mine == race.inv[p]
              r == Invoke(Tracker(mine.active_timers, mine.sessions, data_file), call, now)
          IN  IF r.result # "ok"
                THEN /\ race' = [race EXCEPT
                                    !.events = Append(@, <<p, "raise">>),
                                    !.inv[p] = [@ EXCEPT !.pc = "failed",
                                                         !.call = Result(call, r)]]
                     /\ UNCHANGED data_file
                ELSE /\ race' = [race EXCEPT
                                    !.bytes = 0,
                                    !.events = Append(@, <<p, "open">>),
                                    !.inv[p] = [@ EXCEPT !.pc = "opened",
                                                         !.call = Result(call, r),
                                                         !.active_timers = r.active_timers,
                                                         !.sessions = r.sessions]]
                     /\ data_file' = Truncated
    /\ UNCHANGED <<active_timers, sessions, now, hist, last, pre>>

\* json.dump and the close of the file: the whole text goes to offset 0
RaceWrite(p) ==
    /\ race.inv[p].pc = "opened"
    /\ LET text == save_data(race.inv[p].active_timers, race.inv[p].sessions)
       IN  /\ data_file' = text
           /\ race' = [race EXCEPT
                           !.bytes = BytesAfterWrite(JsonLength(text), @),
                           !.events = Append(@, <<p, "write">>),
                           !.inv[p] = [@ EXCEPT !.pc = "done"]]
    /\ UNCHANGED <<active_timers, sessions, now, hist, last, pre>>

NextRace ==
    \E p \in Invocations : RaceLoad(p) \/ RaceOpen(p) \/ RaceWrite(p)

SpecRace == InitRace /\ [][NextRace]_vars

\* no state file yet
InitAgain == InitRace /\ data_file = NoFile

\* the process has ended, and the command line is used once more
RaceAgain(p) ==
    /\ race.inv[p].pc \in {"done", "failed", "crashed"}
    /\ Len(race.events) < MaxEvents
    /\ race' = [race EXCEPT
                    !.inv[p] = [pc |-> "start", active_timers |-> <<>>,
                                sessions |-> <<>>, call |-> NoCall]]
    /\ UNCHANGED <<active_timers, sessions, data_file, now, hist, last, pre>>

NextAgain ==
    \E p \in Invocations : RaceLoad(p) \/ RaceOpen(p) \/ RaceWrite(p) \/ RaceAgain(p)

\* invocation after invocation, two at a time, from no state file on
SpecAgain == InitAgain /\ [][NextAgain]_vars

-----------------------------------------------------------------------------
(* What the claims speak of *)

Ended == last.result = "ok"

Did(op) == last.op = op /\ last.result = "ok"

\* the call left active timers, sessions and the state file as they were
Unchanged ==
    /\ active_timers = pre.active_timers
    /\ sessions = pre.sessions
    /\ data_file = pre.data_file

\* the timer the last end_timer call aimed at
EndedKey ==
    IF Truthy(last.main_category) /\ Truthy(last.subcategory)
      THEN TimerKey(last.main_category, last.subcategory)
      ELSE pre.active_timers[1].key

LastSession == sessions[Len(sessions)]

\* sessions is pre.sessions with n sessions appended
Appended(n) ==
    /\ Len(sessions) = Len(pre.sessions) + n
    /\ SubSeq(sessions, 1, Len(pre.sessions)) = pre.sessions

\* a timestamp by its value, whatever holds it
Value(x) == IF x.rep = "none" THEN x ELSE [rep |-> "value", t |-> x.t]

TimerValues(at) ==
    [i \in 1..Len(at) |->
        [at[i] EXCEPT !.data.start_time = Value(@), !.data.pause_time = Value(@)]]

SessionValues(ss) ==
    [i \in 1..Len(ss) |->
        [ss[i] EXCEPT !.start_time = Value(@), !.end_time = Value(@)]]

Mutating ==
    {"start_timer", "pause_timer", "resume_timer", "end_timer", "add_session",
     "edit_session", "remove_session", "remove_all_sessions",
     "remove_sessions_by_date", "remove_sessions_by_week"}

-----------------------------------------------------------------------------
(* Claims *)

\* C1: start_timer with a subcategory that is not in the taxonomy list of the
\* category (an unknown category has the empty list) raises the invalid-subcategory
\* error, whose message lists exactly that category's subcategories, and leaves
\* active timers, sessions and the state file as they were, also when a timer is
\* already active.
C1_InvalidSubcategoryRejected ==
    (/\ last.op = "start_timer"
     /\ \A i \in 1..Len(Categories) :
           Categories[i] = last.main_category
             => last.subcategory \notin Range(Subcategories[Categories[i]]))
    => /\ last.result = "Invalid subcategory!"
       /\ last.detail =
            (IF last.main_category \in Range(Categories)
               THEN Subcategories[last.main_category] ELSE <<>>)
       /\ Unchanged

C1_Witness ==
    /\ last.op = "start_timer"
    /\ last.main_category = "Sales"
    /\ last.subcategory = "MetaLand"
    /\ last.result = "Invalid subcategory!"
    /\ Len(active_timers) > 0

\* C2: end_timer on a timer that was never paused appends exactly one session, whose
\* duration is its end_time minus its start_time, and removes the timer's key from
\* active_timers.
C2_StartEndOneSession ==
    (Did("end_timer") /\ ~pre.hist[EndedKey].was_paused)
    => /\ Appended(1)
       /\ LastSession.duration_hours * SecondsPerHour
            = LastSession.end_time.t - LastSession.start_time.t
       /\ LastSession.duration
            = TimedeltaStr(LastSession.end_time.t - LastSession.start_time.t)
       /\ ~HasKey(active_timers, EndedKey)

C2_Witness ==
    /\ Did("end_timer")
    /\ ~pre.hist[EndedKey].was_paused
    /\ pre.active_timers = <<[key |-> EndedKey, data |-> Get(pre.active_timers, EndedKey)]>>
    /\ LastSession.duration_hours > 0
    /\ active_timers = <<>>

\* C3: the session end_timer produces has as its duration the time the timer spent
\* Running, (t1 - t0) + (t3 - t2) + ..., and no part of the time it spent Paused;
\* the same holds of each timer that start_timer ends on confirmation.
C3_DurationIsRunningTime ==
    /\ Did("end_timer")
         => LastSession.duration_hours * SecondsPerHour = pre.hist[EndedKey].ran
    /\ (Did("start_timer") /\ last.confirm)
         => \A i \in 1..Len(pre.active_timers) :
               sessions[Len(pre.sessions) + i].duration_hours * SecondsPerHour
                 = pre.hist[pre.active_timers[i].key].ran

\* started at t0, paused at t1, resumed at t2, ended at t3, with t0 < t1 < t2 < t3
C3_Witness ==
    /\ Did("end_timer")
    /\ pre.hist[EndedKey].was_paused
    /\ pre.hist[EndedKey].idle > 0
    /\ ~Get(pre.active_timers, EndedKey).paused
    /\ Get(pre.active_timers, EndedKey).accumulated_seconds > 0
    /\ last.clock > FromIsoFormat(Get(pre.active_timers, EndedKey).start_time).t
    /\ LastSession.duration_hours * SecondsPerHour
         = pre.hist[EndedKey].ran
    /\ LastSession.duration_hours * SecondsPerHour
         < pre.hist[EndedKey].ran + pre.hist[EndedKey].idle

\* C4: once remove_session(id) has succeeded, remove_session(id) called again at once
\* raises the session-not-found error.
C4_SecondRemoveFails ==
    Did("remove_session")
    => remove_session(Self, last.session_id).result = "No session found"

\* C5: edit_session(id, h) called again right after it succeeded changes nothing:
\* the edited session keeps duration_hours, duration and end_time, and active
\* timers, the other sessions and the state file stay as they are; the same holds
\* when the second call is made by a new invocation, which reads the state file.
C5_EditIdempotent ==
    Did("edit_session")
    => LET again == edit_session(Self, last.session_id, last.duration_hours)
           d == load_data(data_file)
           reloaded == edit_session(Tracker(d.active_timers, d.sessions, data_file),
                                    last.session_id, last.duration_hours)
       IN  /\ again.result = "ok"
           /\ again.sessions = sessions
           /\ again.active_timers = active_timers
           /\ again.data_file = data_file
           /\ reloaded.result = "ok"
           /\ SessionValues(reloaded.sessions) = SessionValues(sessions)
           /\ reloaded.data_file = data_file

C5_Witness ==
    /\ Did("edit_session")
    /\ Len(sessions) = 2
    /\ sessions # pre.sessions
    /\ \E i \in 1..Len(sessions) :
          /\ sessions[i].id = last.session_id
          /\ sessions[i].duration_hours = last.duration_hours
          /\ pre.sessions[i].duration_hours # last.duration_hours

\* C6: after every successful mutating call the state file exists and holds the
\* in-memory active timers and sessions: loading it gives a state equal to the
\* in-memory one field for field, timestamps compared by value.
C6_FileHoldsState ==
    (last.op \in Mutating /\ last.result = "ok")
    => /\ data_file.exists
       /\ TimerValues(load_data(data_file).active_timers) = TimerValues(active_timers)
       /\ SessionValues(load_data(data_file).sessions) = SessionValues(sessions)

\* a save after which the file and the memory hold a timestamp differently
C6_Witness ==
    /\ Did("pause_timer")
    /\ Len(active_timers) = 1
    /\ Len(sessions) = 1
    /\ sessions[1].start_time.rep = "datetime"
    /\ load_data(data_file).sessions # sessions

\* C7: a successful start_timer leaves under the key "{category} - {subcategory}"
\* a Running entry: start_time = now - offset minutes, accumulated_seconds = 0,
\* paused = false, pause_time = null, and the given category, subcategory and
\* description.
C7_StartedTimerIsRunning ==
    Did("start_timer")
    => LET k == TimerKey(last.main_category, last.subcategory)
       IN  /\ HasKey(active_timers, k)
           /\ Get(active_timers, k) =
                [start_time |->
                    [rep |-> "iso",
                     t |-> last.clock - last.offset_minutes * SecondsPerMinute],
                 main_category |-> last.main_category,
                 subcategory |-> last.subcategory,
                 description |-> last.description,
                 accumulated_seconds |-> 0,
                 paused |-> FALSE,
                 pause_time |-> None]

C7_Witness ==
    /\ Did("start_timer")
    /\ last.offset_minutes = 60
    /\ last.clock > 0
    /\ Len(active_timers) = 1

\* C8: pause_timer with exactly one timer active, and that one Running, succeeds; it
\* adds now - start_time to accumulated_seconds, sets start_time to null, paused to
\* true and pause_time to now, and leaves the key, category, subcategory and
\* description of the timer as they were.
C8_PauseEffect ==
    (/\ last.op = "pause_timer"
     /\ Len(pre.active_timers) = 1
     /\ ~pre.active_timers[1].data.paused)
    => LET before == pre.active_timers[1]
       IN  /\ last.result = "ok"
           /\ Len(active_timers) = 1
           /\ active_timers[1].key = before.key
           /\ active_timers[1].data =
                [start_time |-> None,
                 main_category |-> before.data.main_category,
                 subcategory |-> before.data.subcategory,
                 description |-> before.data.description,
                 accumulated_seconds |->
                    before.data.accumulated_seconds
                      + (last.clock - before.data.start_time.t),
                 paused |-> TRUE,
                 pause_time |-> [rep |-> "iso", t |-> last.clock]]

\* a second pause: time had been accumulated before, and more is added
C8_Witness ==
    /\ Did("pause_timer")
    /\ pre.active_timers[1].data.accumulated_seconds > 0
    /\ active_timers[1].data.accumulated_seconds
         > pre.active_timers[1].data.accumulated_seconds

\* C9: resume_timer with exactly one timer active, and that one Paused, succeeds; it
\* sets start_time to now, paused to false and pause_time to null, and leaves
\* accumulated_seconds (and key, category, subcategory, description) as they were.
C9_ResumeEffect ==
    (/\ last.op = "resume_timer"
     /\ Len(pre.active_timers) = 1
     /\ pre.active_timers[1].data.paused)
    => LET before == pre.active_timers[1]
       IN  /\ last.result = "ok"
           /\ Len(active_timers) = 1
           /\ active_timers[1].key = before.key
           /\ active_timers[1].data =
                [start_time |-> [rep |-> "iso", t |-> last.clock],
                 main_category |-> before.data.main_category,
                 subcategory |-> before.data.subcategory,
                 description |-> before.data.description,
                 accumulated_seconds |-> before.data.accumulated_seconds,
                 paused |-> FALSE,
                 pause_time |-> None]

\* resumed later than it was paused, with time accumulated
C9_Witness ==
    /\ Did("resume_timer")
    /\ active_timers[1].data.accumulated_seconds > 0
    /\ last.clock > pre.active_timers[1].data.pause_time.t

\* C10: pause_timer raises when no timer is active, when more than one is, and when
\* the only one is already paused; resume_timer raises when no timer is active, when
\* more than one is, and when the only one is not paused; each time active timers,
\* sessions and the state file stay as they were.
C10_PauseResumeRejected ==
    /\ last.op = "pause_timer"
         => /\ Len(pre.active_timers) = 0
                 => last.result = "No active timers to pause." /\ Unchanged
            /\ Len(pre.active_timers) > 1
                 => last.result = "Multiple timers active" /\ Unchanged
            /\ (Len(pre.active_timers) = 1 /\ pre.active_timers[1].data.paused)
                 => last.result = "already paused" /\ Unchanged
    /\ last.op = "resume_timer"
         => /\ Len(pre.active_timers) = 0
                 => last.result = "No paused timers to resume." /\ Unchanged
            /\ Len(pre.active_timers) > 1
                 => last.result = "Multiple timers active" /\ Unchanged
            /\ (Len(pre.active_timers) = 1 /\ ~pre.active_timers[1].data.paused)
                 => last.result = "not paused" /\ Unchanged

\* two timers are active, one of them Running, and pause_timer is called
C10_Witness ==
    /\ last.op = "pause_timer"
    /\ last.result = "Multiple timers active"
    /\ Len(active_timers) = 2
    /\ \E i \in 1..2 : ~active_timers[i].data.paused

C12_EndedDuration ==
    Did("end_timer")
    => LET timer_data == Get(pre.active_timers, EndedKey)
           total_seconds ==
               IF timer_data.paused
                 THEN timer_data.accumulated_seconds
                 ELSE timer_data.accumulated_seconds
                        + (last.clock - timer_data.start_time.t)
       IN  /\ LastSession.duration_hours * SecondsPerHour = total_seconds
           /\ LastSession.duration = TimedeltaStr(total_seconds)
           /\ LastSession.end_time.rep # "none"
           /\ LastSession.end_time.t =
                 (IF timer_data.paused THEN timer_data.pause_time.t ELSE last.clock)

\* a timer with time accumulated is ended an hour or more after it was paused
C12_Witness ==
    /\ Did("end_timer")
    /\ Get(pre.active_timers, EndedKey).paused
    /\ Get(pre.active_timers, EndedKey).accumulated_seconds > 0
    /\ last.clock > Get(pre.active_timers, EndedKey).pause_time.t
    /\ LastSession.end_time.t < last.clock

\* C13: add_session with a subcategory of the category's taxonomy list appends one
\* session at the end of the list: start_time = date, end_time = date + h hours,
\* duration_hours = h, the given category, subcategory and description, and as id
\* the number of sessions before the call plus one. With any other subcategory it
\* raises and the session list stays as it was.
C13_AddSessionEffect ==
    last.op = "add_session"
    => IF /\ last.main_category \in Range(Categories)
          /\ last.subcategory \in Range(Subcategories[last.main_category])
         THEN /\ last.result = "ok"
              /\ Appended(1)
              /\ LastSession.id = Len(pre.sessions) + 1
              /\ Value(LastSession.start_time) = Value(last.date)
              /\ LastSession.end_time.rep # "none"
              /\ LastSession.end_time.t
                    = last.date.t + last.duration_hours * SecondsPerHour
              /\ LastSession.duration_hours = last.duration_hours
              /\ LastSession.main_category = last.main_category
              /\ LastSession.subcategory = last.subcategory
              /\ LastSession.description = last.description
         ELSE /\ last.result = "Invalid subcategory!"
              /\ sessions = pre.sessions

\* a second session is added
C13_Witness ==
    /\ Did("add_session")
    /\ Len(pre.sessions) = 1
    /\ LastSession.id = 2
    /\ LastSession.end_time.t > LastSession.start_time.t

\* C14: edit_session(id, h) raises and changes nothing when no session has the id.
\* Otherwise it sets, on one session with that id, duration_hours to h, duration to
\* the string of h hours and end_time to start_time + h hours; that session's id,
\* categories, description, week and the value of its start_time, and every other
\* session, stay as they were.
C14_EditSessionEffect ==
    last.op = "edit_session"
    => IF \A i \in 1..Len(pre.sessions) : pre.sessions[i].id # last.session_id
         THEN last.result = "No session found" /\ Unchanged
         ELSE /\ last.result = "ok"
              /\ Len(sessions) = Len(pre.sessions)
              /\ \E i \in 1..Len(sessions) :
                    LET old == pre.sessions[i]
                        new == sessions[i]
                        seconds == last.duration_hours * SecondsPerHour
                    IN  /\ old.id = last.session_id
                        /\ \A j \in 1..Len(sessions) :
                              j # i => sessions[j] = pre.sessions[j]
                        /\ new.duration_hours = last.duration_hours
                        /\ new.duration = TimedeltaStr(seconds)
                        /\ new.end_time.rep # "none"
                        /\ new.end_time.t = old.start_time.t + seconds
                        /\ Value(new.start_time) = Value(old.start_time)
                        /\ new.id = old.id
                        /\ new.main_category = old.main_category
                        /\ new.subcategory = old.subcategory
                        /\ new.description = old.description
                        /\ new.week = old.week

\* two sessions carry the id: the first is edited, the second is left alone
C14_Witness ==
    /\ Did("edit_session")
    /\ Len(sessions) = 2
    /\ sessions[1].id = last.session_id
    /\ sessions[2].id = last.session_id
    /\ sessions[1].end_time # pre.sessions[1].end_time
    /\ sessions[2] = pre.sessions[2]

\* C15: remove_session(id) raises and changes nothing when no session has the id.
\* Otherwise it deletes exactly one session, one whose id is id; the sessions that
\* remain keep their order and their ids, and the active timers stay as they were.
C15_RemoveSessionEffect ==
    last.op = "remove_session"
    => IF \A i \in 1..Len(pre.sessions) : pre.sessions[i].id # last.session_id
         THEN last.result = "No session found" /\ Unchanged
         ELSE /\ last.result = "ok"
              /\ active_timers = pre.active_timers
              /\ \E i \in 1..Len(pre.sessions) :
                    /\ pre.sessions[i].id = last.session_id
                    /\ sessions =
                          [j \in 1..(Len(pre.sessions) - 1) |->
                              IF j < i THEN pre.sessions[j] ELSE pre.sessions[j + 1]]

\* two sessions carry the id, and one of them is left
C15_Witness ==
    /\ Did("remove_session")
    /\ Len(pre.sessions) = 2
    /\ pre.sessions[1].id = last.session_id
    /\ pre.sessions[2].id = last.session_id
    /\ Len(sessions) = 1
    /\ sessions[1].id = last.session_id

\* C16: a bulk removal removes exactly the sessions its selector matches, keeps the
\* others in the order they had, and returns how many it removed. remove_all_sessions
\* matches every session; remove_sessions_by_date(d) those whose start_time is on
\* day d; remove_sessions_by_week(offset) those whose stored week is the ISO week
\* number of now + offset weeks.
C16_BulkRemoval ==
    LET Removes(Matches(_)) ==
            /\ last.result = "ok"
            /\ sessions = SelectSeq(pre.sessions, LAMBDA s : ~Matches(s))
            /\ last.returned
                  = Cardinality({i \in 1..Len(pre.sessions) : Matches(pre.sessions[i])})
        All(s) == TRUE
        OnDate(s) == s.start_time.t \div SecondsPerDay = last.target_date
        InWeek(s) ==
            s.week = IsoWeek(DateTime(last.clock + last.week_offset * SecondsPerWeek))
    IN  /\ last.op = "remove_all_sessions" => Removes(All)
        /\ last.op = "remove_sessions_by_date" => Removes(OnDate)
        /\ last.op = "remove_sessions_by_week" => Removes(InWeek)

\* of two sessions, the one of next week is removed and the one of this week kept
C16_Witness ==
    /\ Did("remove_sessions_by_week")
    /\ last.week_offset = 1
    /\ last.returned = 1
    /\ Len(pre.sessions) = 2
    /\ sessions = <<pre.sessions[1]>>

\* C17: from the empty session list, as long as no removal is called, the k-th
\* session created, by end_timer or by add_session, has id k: the ids are 1..n in
\* list order, no two the same.
C17_IdsCountUp ==
    \A i \in 1..Len(sessions) : sessions[i].id = i

\* a session made by end_timer is the first of three, add_session makes the third
C17_Witness ==
    /\ Did("add_session")
    /\ Len(sessions) = 3
    /\ sessions[1].start_time.rep = "iso"
    /\ sessions[1].id = 1
    /\ sessions[2].id = 2
    /\ sessions[3].id = 3

\* C18: a session that end_timer or add_session creates gets the number of sessions
\* in the list plus one as its id, so that when a removal has left a session with
\* that id in the list, two sessions of the list carry the same id: add, add,
\* remove_session(1), add leaves two sessions with id 2.
C18_IdIsCountPlusOne ==
    (Did("add_session") \/ Did("end_timer"))
    => /\ Appended(1)
       /\ LastSession.id = Len(pre.sessions) + 1
       /\ (\E i \in 1..Len(pre.sessions) : pre.sessions[i].id = Len(pre.sessions) + 1)
            => \E i, j \in 1..Len(sessions) : i < j /\ sessions[i].id = sessions[j].id

\* the list held the session with id 2 alone, and add_session gives id 2 again
C18_Witness ==
    /\ Did("add_session")
    /\ Len(pre.sessions) = 1
    /\ pre.sessions[1].id = 2
    /\ Len(sessions) = 2
    /\ sessions[1].id = 2
    /\ sessions[2].id = 2

\* where an event stands in the run of the two invocations
Pos(p, step) == CHOOSE i \in 1..Len(race.events) : race.events[i] = <<p, step>>

\* both invocations have written, and both had loaded before either began to save
BothLoadedThenSaved ==
    /\ race.inv # <<>>
    /\ \A p \in Invocations : race.inv[p].pc = "done"
    /\ \A p, q \in Invocations : Pos(p, "load") < Pos(q, "open")

LaterWriter ==
    CHOOSE p \in Invocations : \A q \in Invocations : Pos(q, "write") <= Pos(p, "write")

\* C19: two invocations each load the whole state file, change their own copy and
\* write the whole file back, unlocked. When both have loaded before either saves,
\* the file ends as exactly the state the later writer wrote, which is what that
\* invocation alone would have made of the file both read: the earlier writer's
\* update is lost.
C19_LastWriterWins ==
    BothLoadedThenSaved
    => LET w == race.inv[LaterWriter]
           d == load_data(race.initial)
           alone == Invoke(Tracker(d.active_timers, d.sessions, race.initial), w.call, now)
       IN  /\ race.bytes = Bytes(data_file)
           /\ data_file = save_data(w.active_timers, w.sessions)
           /\ data_file = alone.data_file

\* C20: in every state the tracker's operations reach from the empty state, every
\* active timer and every session has a subcategory that is in the taxonomy list of
\* its main category.
C20_SubcategoriesInTaxonomy ==
    LET InTaxonomy(e) ==
            /\ e.main_category \in Range(Categories)
            /\ e.subcategory \in Range(Subcategories[e.main_category])
    IN  /\ \A i \in 1..Len(active_timers) : InTaxonomy(active_timers[i].data)
        /\ \A i \in 1..Len(sessions) : InTaxonomy(sessions[i])

\* a timer and a session exist, and a call with a subcategory of another category
\* has just been turned down
C20_Witness ==
    /\ last.op = "add_session"
    /\ last.main_category = "Other"
    /\ last.subcategory = "CRM work"
    /\ last.result = "Invalid subcategory!"
    /\ Len(active_timers) = 1
    /\ Len(sessions) = 1

\* the sessions the last generate_report call reported on
Filtered ==
    IF last.week # <<>>
      THEN SelectSeq(pre.sessions, LAMBDA x : x.week = last.week[1])
      ELSE pre.sessions

HoursOf(ss) == Sum([i \in 1..Len(ss) |-> ss[i].duration_hours])

\* C21: in the summary report over the sessions, filtered by week when a week is
\* given, each subcategory line is the sum of duration_hours of the sessions of that
\* category and subcategory, each category total is the sum of its subcategory
\* lines, the categories come in the order of the taxonomy, and the grand total is
\* the sum of the category totals and the sum of duration_hours of all the sessions
\* reported on.
C21_SummaryTotals ==
    (Did("generate_report") /\ last.format_type = "summary" /\ Filtered # <<>>)
    => LET groups == last.detail.groups
           Of(main_cat) == SelectSeq(Filtered, LAMBDA x : x.main_category = main_cat)
       IN  /\ [i \in 1..Len(groups) |-> groups[i].main_cat]
                 = SelectSeq(Categories, LAMBDA c : Of(c) # <<>>)
           /\ \A i \in 1..Len(groups) :
                 LET lines == groups[i].lines
                     mine == Of(groups[i].main_cat)
                 IN  /\ \A j \in 1..Len(lines) :
                           lines[j].data
                             = HoursOf(SelectSeq(mine, LAMBDA x :
                                                   x.subcategory = lines[j].key))
                     /\ \A j, k \in 1..Len(lines) :
                           lines[j].key = lines[k].key => j = k
                     /\ {lines[j].key : j \in 1..Len(lines)}
                           = {mine[j].subcategory : j \in 1..Len(mine)}
                     /\ groups[i].total = Sum([j \in 1..Len(lines) |-> lines[j].data])
           /\ last.detail.total_hours
                 = Sum([i \in 1..Len(groups) |-> groups[i].total])
           /\ last.detail.total_hours = HoursOf(Filtered)

\* the first session is of the category the taxonomy names last, and the other
\* category has two subcategory lines
C21_Witness ==
    /\ Did("generate_report")
    /\ last.format_type = "summary"
    /\ last.week = <<>>
    /\ Len(sessions) = 3
    /\ sessions[1].main_category = "Other"
    /\ Len(last.detail.groups) = 2
    /\ last.detail.groups[1].main_cat = "Sales"
    /\ Len(last.detail.groups[1].lines) = 2
    /\ last.detail.total_hours = 4

\* C22: generate_report, in each format and with or without a week, and the status
\* command only read: active timers, sessions and the state file are after the call
\* what they were before it, also when the report raises.
C22_ReportsReadOnly ==
    last.op \in {"generate_report", "status"} => Unchanged

\* a detailed report of one week, over sessions read from the file, beside a timer
C22_Witness ==
    /\ Did("generate_report")
    /\ last.format_type = "detailed"
    /\ last.week = <<2>>
    /\ last.result = "ok"
    /\ Len(sessions) = 2
    /\ "rows" \in DOMAIN last.detail
    /\ Len(last.detail.rows) = 1
    /\ sessions[1].start_time.rep = "str"
    /\ Len(active_timers) = 1
    /\ data_file.exists

\* C23: start_timer with a valid subcategory while timers are active. When the caller
\* confirms, each timer that was active, Running or Paused, is ended into a session
\* of its own, in the order the timers were held, and the timer just started is the
\* only active one; when the caller declines, start_timer fails and active timers,
\* sessions and the state file stay as they were.
C23_StartOverActive ==
    (/\ last.op = "start_timer"
     /\ ValidSubcategory(last.main_category, last.subcategory)
     /\ Len(pre.active_timers) > 0)
    => IF last.confirm
         THEN /\ last.result = "ok"
              /\ Appended(Len(pre.active_timers))
              /\ \A i \in 1..Len(pre.active_timers) :
                    LET session == sessions[Len(pre.sessions) + i]
                        timer_data == pre.active_timers[i].data
                    IN  /\ session.main_category = timer_data.main_category
                        /\ session.subcategory = timer_data.subcategory
                        /\ session.description = timer_data.description
              /\ Keys(active_timers)
                    = <<TimerKey(last.main_category, last.subcategory)>>
              /\ ~active_timers[1].data.paused
              /\ data_file = save_data(active_timers, sessions)
         ELSE /\ last.result = "Please stop the current timer before starting a new one."
              /\ Unchanged

\* a Running and a Paused timer were active, and the caller confirmed
C23_Witness ==
    /\ Did("start_timer")
    /\ last.confirm
    /\ Len(pre.active_timers) = 2
    /\ \E i, j \in 1..2 : /\ pre.active_timers[i].data.paused
                          /\ ~pre.active_timers[j].data.paused
    /\ Len(sessions) = Len(pre.sessions) + 2
    /\ Len(active_timers) = 1

\* C24: the command `resume`, given while exactly one timer is active and that one
\* Paused, runs resume_timer and leaves the timer Running, paused = false and
\* start_time set: what `pause` paused, `resume` brings back.
C24_ResumeCommandResumes ==
    (/\ last.op = "resume"
     /\ Len(pre.active_timers) = 1
     /\ pre.active_timers[1].data.paused)
    => /\ last.result = "ok"
       /\ Len(active_timers) = 1
       /\ ~active_timers[1].data.paused
       /\ active_timers[1].data.start_time.rep # "none"

RunningShape(timer_data) ==
    /\ ~timer_data.paused
    /\ timer_data.start_time.rep # "none"
    /\ timer_data.pause_time.rep = "none"

PausedShape(timer_data) ==
    /\ timer_data.paused
    /\ timer_data.start_time.rep = "none"
    /\ timer_data.pause_time.rep # "none"

\* C25: from no state file on, with nothing but the tracker's commands writing the
\* file, at most one timer is active in the copy of every invocation and in the
\* file, also when invocations interleave their load and save steps; so no command
\* fails with 'Multiple timers active', and end_timer without arguments fails only
\* when no timer is active.
C25_AtMostOneTimer ==
    /\ Len(data_file.active_timers) <= 1
    /\ Len(active_timers) <= 1
    /\ \A p \in Invocations :
          LET mine == race.inv[p]
          IN  /\ Len(mine.active_timers) <= 1
              /\ mine.pc = "failed"
                   => /\ mine.call.result # "Multiple timers active"
                      /\ mine.call.op = "end_timer" => mine.active_timers = <<>>

\* two invocations found no file and both saved, the second to write having started
\* a timer; the first ran again and ended that timer without naming it
C25_Witness ==
    \E p, q \in Invocations :
        /\ p # q
        /\ Len(race.events) = 8
        /\ SubSeq(race.events, 1, 2) = <<<<p, "load">>, <<q, "load">>>>
        /\ \E i \in 3..5 : race.events[i] = <<p, "write">>
        /\ race.events[6] = <<q, "write">>
        /\ race.events[7] = <<p, "load">>
        /\ race.events[8] = <<p, "open">>
        /\ race.inv[q].pc = "done"
        /\ race.inv[q].call.op = "start_timer"
        /\ Len(race.inv[q].active_timers) = 1
        /\ race.inv[p].pc = "opened"
        /\ race.inv[p].call.op = "end_timer"
        /\ race.inv[p].call.result = "ok"
        /\ race.inv[p].active_timers = <<>>
        /\ Len(race.inv[p].sessions) >= 1

\* C26: every active timer, in memory and in the state file, is either Running
\* (paused false, start_time set, pause_time null) or Paused (paused true,
\* start_time null, pause_time set), whatever start, pause, resume and end did.
C26_TimerShapes ==
    /\ \A i \in 1..Len(active_timers) :
          RunningShape(active_timers[i].data) \/ PausedShape(active_timers[i].data)
    /\ \A i \in 1..Len(data_file.active_timers) :
          \/ RunningShape(data_file.active_timers[i].data)
          \/ PausedShape(data_file.active_timers[i].data)

\* a timer that was paused and resumed is paused once more
C26_Witness ==
    /\ Did("pause_timer")
    /\ Len(active_timers) = 1
    /\ PausedShape(active_timers[1].data)
    /\ hist[active_timers[1].key].was_paused
    /\ RunningShape(pre.active_timers[1].data)
    /\ pre.active_timers[1].data.accumulated_seconds > 0

\* C27: every session ends where its start and its duration put it: end_time =
\* start_time + duration_hours, whether add_session or end_timer made it, paused
\* and resumed timers included, and whether or not edit_session changed it since.
C27_SessionsSpanDuration ==
    \A i \in 1..Len(sessions) :
        sessions[i].end_time.t
          = sessions[i].start_time.t + sessions[i].duration_hours * SecondsPerHour

\* C28: while the clock never goes backwards, whatever integer offset the start
\* command took, accumulated_seconds of every active timer is >= 0 and every session
\* that end_timer made has duration_hours >= 0.
C28_NothingNegative ==
    /\ \A i \in 1..Len(active_timers) : active_timers[i].data.accumulated_seconds >= 0
    /\ \A i \in 1..Len(sessions) : sessions[i].duration_hours >= 0

\* C29: pause_timer, resume_timer and a start_timer that finds no timer active leave
\* the sessions as they were; add_session, edit_session and each of the remove
\* operations leave the active timers as they were; end_timer changes the sessions
\* only by appending one session at the end, and not at all when it fails.
C29_CollectionsApart ==
    /\ last.op \in {"pause_timer", "resume_timer"} => sessions = pre.sessions
    /\ (last.op = "start_timer" /\ Len(pre.active_timers) = 0)
         => sessions = pre.sessions
    /\ last.op \in {"add_session", "edit_session", "remove_session",
                     "remove_all_sessions", "remove_sessions_by_date",
                     "remove_sessions_by_week"}
         => active_timers = pre.active_timers
    /\ last.op = "end_timer"
         => IF last.result = "ok" THEN Appended(1) ELSE sessions = pre.sessions

\* every session is removed while a timer is active
C29_Witness ==
    /\ Did("remove_all_sessions")
    /\ Len(pre.sessions) > 0
    /\ sessions = <<>>
    /\ Len(active_timers) = 1
    /\ active_timers = pre.active_timers

====
